---- MODULE Spec2Model ----
(***************************************************************************)
(* config-engine: a read-only mirror (ConfigEngine) of one namespace of a  *)
(* NATS JetStream K/V bucket, and the writer (ConfigEngineManager).        *)
(*                                                                         *)
(* The mirror consumes the bucket's watch feed in one loop, keeps the      *)
(* highest revision seen per key in a local map and calls the listeners    *)
(* registered for a key when an entry for it is accepted.                  *)
(***************************************************************************)
EXTENDS Integers, Sequences, FiniteSets, TLC

\* ------------------------------------------------------------- bounds
MaxWrites == 2          \* writes committed to the bucket
MaxListeners == 2       \* registrations alive at one time, over all keys
MaxPatchWrites == 3     \* writes committed by create and patch calls
MaxHistoryWrites == 3   \* writes committed before and during a history call

\* ------------------------------------------------------------- domains
Namespace == "ns"
Paths == {<<"a">>, <<"n", "b">>}          \* flattened paths, one segment per element
Values == {"x"}                           \* defined primitive values
Absent == "undefined"                     \* JavaScript's undefined
Callbacks == {"cbOk", "cbReject", "cbThrow"}

\* callbacks that call back into the engine while they run, or whose promise
\* stays pending
DispatchCallbacks == {"cbOk", "cbAdds", "cbRemoves", "cbPending"}

\* callbacks of an engine one of whose listeners closes it when it is called
CloseCallbacks == {"cbOk", "cbCloses"}

AllCallbacks == Callbacks \cup DispatchCallbacks \cup CloseCallbacks

\* util.ts: `${namespace}.${path}`, the dot-joined segments
namespacedKey(namespace, path) == <<namespace>> \o path

keyFor(path) == namespacedKey(Namespace, path)

Keys == {keyFor(p) : p \in Paths}

\* a schema leaf that is an array of primitives, its value and its elements
ListPath == <<"l">>

ListValue == "[x,x]"

ListItems == <<"x", "x">>

\* Object.entries of an array: the names of its elements
IndexNames == <<"0", "1">>

\* the leaves of the schema: the primitive ones and the array
SchemaLeaves == Paths \cup {ListPath}

\* every key a client can write under the namespace
StoreKeys ==
    {keyFor(p) : p \in SchemaLeaves}
        \cup {keyFor(ListPath \o <<IndexNames[i]>>) : i \in 1..Len(IndexNames)}

\* ------------------------------------------------------------- JSONCodec
\* The payload of a PUT is the JSON text of the value; a DEL carries no
\* payload; a client that is not the manager can store bytes that are no JSON.
jsonEncode(v) == [fmt |-> "json", text |-> v]

EmptyPayload == [fmt |-> "empty", text |-> ""]

RawPayload == [fmt |-> "raw", text |-> "?"]

\* JSON.parse: throws on anything that is no JSON text
jsonDecode(payload) ==
    IF payload.fmt = "json"
    THEN [ok |-> TRUE, value |-> payload.text]
    ELSE [ok |-> FALSE, value |-> Absent]

\* ------------------------------------------------------------- state
VARIABLES
    log,            \* the bucket's stream: log[r] is the entry of revision r
    clock,          \* the store's clock (ticks), stamped on entries as `created`
    config,         \* ConfigEngine.config: key -> ConfigurationEntry
    watchers,       \* ConfigEngine.watchers: key -> Set of callbacks, in insertion
                    \* order (a key without a Set reads as the empty Set)
    active,         \* ConfigEngine.active
    initialized,    \* ConfigEngine.initialized
    stopped,        \* watch.stop() has been called
    loop,           \* the consumer loop: idle, running, ended, failed
    connectState,   \* ConfigEngine.connect: watching, pending, resolved, rejected
    delivered,      \* revisions the loop has handed to processEntry
    exists,         \* the namespace's bucket exists in the store
    call,           \* the create or patch call of ConfigEngineManager in progress
                    \* (or the last one made) and the leaves it has still to write
    historyCall,    \* the history call of ConfigEngineManager in progress (or the
                    \* last one made): the entries kv.history has still to yield
                    \* and the values pushed so far
    unsettled,      \* the callback calls whose promise has not settled yet
    event           \* what the watch gave the engine in the step just taken: an
                    \* entry (with the callbacks called for it) or the signal

storeVars == <<log, clock>>
managerVars == <<exists, call, historyCall>>
engineVars == <<config, watchers, active, initialized, stopped, loop, connectState>>
vars == <<log, clock, config, watchers, active, initialized, stopped, loop,
          connectState, delivered, exists, call, historyCall, unsettled, event>>

Revisions == 1..MaxWrites

NoError == "none"

ClosedError == "ConfigEngine closed"

\* views.kv(namespace, { bindOnly: true }) on a namespace that does not exist
NotFoundError == "stream not found"

\* a publish to the subjects of a bucket that is gone
NoRespondersError == "503 no responders"

\* a publish by a client without publish permissions
PermissionsError == "permissions violation"

NoEntry == [present |-> FALSE, value |-> Absent, revision |-> 0, timestamp |-> 0]

NoEvent == [kind |-> "none", revision |-> 0, invoked |-> <<>>]

CaughtUp == [kind |-> "caughtUp", revision |-> 0, invoked |-> <<>>]

\* addListener has returned a cached value (invoked: the callbacks it called
\* itself)
Added(invoked) == [kind |-> "added", revision |-> 0, invoked |-> invoked]

\* removeListener has deleted a callback from the Set of its key
Removed == [kind |-> "removed", revision |-> 0, invoked |-> <<>>]

\* the loop has thrown 'ConfigEngine closed' on the entry of revision r
ClosedThrow(r) == [kind |-> "closedThrow", revision |-> r, invoked |-> <<>>]

\* a static call of ConfigEngineManager (create, patch, connect) has bound the
\* bucket or failed to
Called == [kind |-> "called", revision |-> 0, invoked |-> <<>>]

\* manager.destroy() has resolved
Destroyed == [kind |-> "destroyed", revision |-> 0, invoked |-> <<>>]

\* ConfigEngine.connect has rejected at line 39, before an engine was made
ConnectFailed == [kind |-> "connectFailed", revision |-> 0, invoked |-> <<>>]

\* manager.set has resolved (revision: the one the store gave the write)
SetDone(r) == [kind |-> "set", revision |-> r, invoked |-> <<>>]

\* manager.set has rejected
SetFailed == [kind |-> "setFailed", revision |-> 0, invoked |-> <<>>]

\* a step of manager.history: the call of kv.history, an entry the iterator
\* has yielded (revision: its revision), or the return
HistoryStep(r) == [kind |-> "history", revision |-> r, invoked |-> <<>>]

\* a patch tree: a leaf (a primitive or undefined), an array, or an object
\* with its entries in insertion order, each a pair <<name, node>>
Leaf(v) == [t |-> "leaf", v |-> v, kids |-> <<>>]

Arr(v, items) ==
    [t |-> "array", v |-> v,
     kids |-> [i \in 1..Len(items) |-> <<IndexNames[i], Leaf(items[i])>>]]

Obj(kids) == [t |-> "object", v |-> Absent, kids |-> kids]

NoCall == [op |-> "none", tree |-> Obj(<<>>), todo |-> <<>>, base |-> 0, error |-> NoError]

\* no history call made
NoHistory ==
    [state |-> "none", path |-> <<>>, reported |-> {}, pending |-> {}, values |-> <<>>]

\* a new engine for a namespace whose clients use the given keys, no entry in
\* the bucket, no manager call made
Fresh(keys) ==
    /\ log = <<>>
    /\ clock = 0
    /\ config = [k \in keys |-> NoEntry]
    /\ watchers = [k \in keys |-> <<>>]
    /\ active = FALSE
    /\ initialized = FALSE
    /\ stopped = FALSE
    /\ loop = "idle"
    /\ connectState = "watching"
    /\ delivered = {}
    /\ call = NoCall
    /\ historyCall = NoHistory
    /\ unsettled = {}
    /\ event = NoEvent

\* ConfigEngine.connect has bound the bucket of an existing namespace
Init == Fresh(Keys) /\ exists = TRUE

\* ------------------------------------------------------------- the bucket
\* kv.put / kv.delete: the store appends the entry and gives it the next
\* revision (the stream sequence) and its clock's time
Commit(key, operation, payload) ==
    /\ clock' = clock + 1
    /\ log' = Append(log, [key |-> key, operation |-> operation, value |-> payload,
                           revision |-> Len(log) + 1, created |-> clock + 1])

\* mutant: undefined is put like any other value
setPutsAlways(path, value) == Commit(keyFor(path), "PUT", jsonEncode(value))

\* ConfigEngineManager.set(path, value): a delete for undefined, else a put
set(path, value) ==
    IF value = Absent
    THEN Commit(keyFor(path), "DEL", EmptyPayload)
    ELSE Commit(keyFor(path), "PUT", jsonEncode(value))

\* the holder of a connected manager calls set
ManagerSet(path, value) ==
    /\ Len(log) < MaxWrites
    /\ set(path, value)
    /\ event' = NoEvent
    /\ UNCHANGED <<managerVars, engineVars, delivered, unsettled>>

\* the paths under which another client of the bucket writes
ForeignPaths == {<<"a">>}

\* another client of the bucket stores bytes that are no JSON under a key
ForeignPut(path) ==
    /\ Len(log) < MaxWrites
    /\ Commit(keyFor(path), "PUT", RawPayload)
    /\ event' = NoEvent
    /\ UNCHANGED <<managerVars, engineVars, delivered, unsettled>>

\* ------------------------------------------------------------- ConfigEngine
\* mutant: the rejection is dropped
rejectIgnored(state) == state

\* Promise reject of ConfigEngine.connect: settles it only while it is pending
reject(state) == IF state \in {"watching", "pending"} THEN "rejected" ELSE state

\* Promise resolve of ConfigEngine.connect
resolve(state) == IF state \in {"watching", "pending"} THEN "resolved" ELSE state

\* mutant: connect is resolved as soon as the watch is established
awaitWatchResolves(state) == IF state = "watching" THEN "resolved" ELSE state

\* lines 53-61: kv.watch() has returned the iterator; connect stays pending
awaitWatch(state) == IF state = "watching" THEN "pending" ELSE state

\* initialize: kv.watch() resolves; this.watch is set and the loop starts
WatchEstablished ==
    /\ connectState = "watching"
    /\ loop = "idle"
    /\ connectState' = awaitWatch(connectState)
    /\ loop' = "running"
    /\ event' = NoEvent
    /\ UNCHANGED <<managerVars, storeVars, config, watchers, active, initialized, stopped, delivered, unsettled>>

\* initialize: kv.watch() rejects; the catch block rejects connect
WatchFails ==
    /\ connectState = "watching"
    /\ loop = "idle"
    /\ connectState' = reject(connectState)
    /\ loop' = "failed"
    /\ event' = NoEvent
    /\ UNCHANGED <<managerVars, storeVars, config, watchers, active, initialized, stopped, delivered, unsettled>>

\* mutant: the guard reads the flag that close() never clears
checkInitialized(isActive) == ~initialized

\* checkActive: TRUE when it throws 'ConfigEngine closed'
checkActive(isActive) == ~isActive

\* mutant: entry.value without the optional chaining throws on a missing entry
getWithoutOptionalChaining(path) ==
    IF checkActive(active)
    THEN [error |-> ClosedError, value |-> Absent]
    ELSE IF config[keyFor(path)].present
         THEN [error |-> NoError, value |-> config[keyFor(path)].value]
         ELSE [error |-> "TypeError", value |-> Absent]

\* mutant: get without checkActive
getUnchecked(path) ==
    [error |-> NoError,
     value |-> IF config[keyFor(path)].present
               THEN config[keyFor(path)].value
               ELSE Absent]

\* get(path): checkActive, then entry?.value
get(path) ==
    IF checkActive(active)
    THEN [error |-> ClosedError, value |-> Absent]
    ELSE [error |-> NoError,
          value |-> IF config[keyFor(path)].present
                    THEN config[keyFor(path)].value
                    ELSE Absent]

\* Set.prototype.has on the insertion-ordered set
Has(cbs, cb) == \E i \in 1..Len(cbs) : cbs[i] = cb

\* mutant: adding a member again moves it to the end
SetAddMoves(cbs, cb) == Append(SelectSeq(cbs, LAMBDA c : c # cb), cb)

\* Set.prototype.add: a member keeps its place, a new one goes last
SetAdd(cbs, cb) == IF Has(cbs, cb) THEN cbs ELSE Append(cbs, cb)

\* Set.prototype.delete
SetDelete(cbs, cb) == SelectSeq(cbs, LAMBDA c : c # cb)

\* registrations alive, over all keys
Registered == {kc \in Keys \X AllCallbacks : Has(watchers[kc[1]], kc[2])}

\* mutant: the callback is called at once with the cached value
addListenerFires(path, cb) ==
    IF checkActive(active)
    THEN [error |-> ClosedError, value |-> Absent, watchers |-> watchers,
          invoked |-> <<>>]
    ELSE [error |-> get(path).error, value |-> get(path).value,
          watchers |-> [watchers EXCEPT ![keyFor(path)] = SetAdd(@, cb)],
          invoked |-> IF get(path).value # Absent THEN <<cb>> ELSE <<>>]

\* addListener(path, callback): what it returns, the registry it leaves and the
\* callbacks it calls itself (none)
addListener(path, cb) ==
    IF checkActive(active)
    THEN [error |-> ClosedError, value |-> Absent, watchers |-> watchers,
          invoked |-> <<>>]
    ELSE [error |-> get(path).error, value |-> get(path).value,
          watchers |-> [watchers EXCEPT ![keyFor(path)] = SetAdd(@, cb)],
          invoked |-> <<>>]

\* mutant: the whole Set of the key is dropped
removeListenerDropsSet(path, cb) ==
    [error |-> NoError,
     watchers |-> [watchers EXCEPT ![keyFor(path)] = <<>>]]

\* removeListener(path, callback): what it returns and the registry it leaves
removeListener(path, cb) ==
    [error |-> NoError,
     watchers |-> [watchers EXCEPT ![keyFor(path)] = SetDelete(@, cb)]]

\* the holder of the engine calls addListener
AddListener(path, cb) ==
    /\ connectState = "resolved"
    /\ \/ checkActive(active)
       \/ Has(watchers[keyFor(path)], cb)
       \/ Cardinality(Registered) < MaxListeners
    /\ LET added == addListener(path, cb)
       IN /\ watchers' = added.watchers
          /\ event' = IF added.value # Absent THEN Added(added.invoked) ELSE NoEvent
    /\ UNCHANGED <<managerVars, storeVars, config, active, initialized, stopped, loop,
                   connectState, delivered, unsettled>>

\* the holder of the engine calls removeListener
RemoveListener(path, cb) ==
    /\ connectState = "resolved"
    /\ watchers' = removeListener(path, cb).watchers
    /\ event' = IF Has(watchers[keyFor(path)], cb) THEN Removed ELSE NoEvent
    /\ UNCHANGED <<managerVars, storeVars, config, active, initialized, stopped, loop,
                   connectState, delivered, unsettled>>

\* the holder of the engine calls get: no field is written
Get(path) ==
    /\ connectState = "resolved"
    /\ get(path).error \in {NoError, ClosedError}
    /\ event' = NoEvent
    /\ UNCHANGED <<managerVars, storeVars, engineVars, delivered, unsettled>>

\* close(): watch.stop(), active = false, watchers.clear()
Close ==
    /\ connectState = "resolved"
    /\ stopped' = TRUE
    /\ active' = FALSE
    /\ watchers' = [k \in DOMAIN watchers |-> <<>>]
    /\ event' = NoEvent
    /\ UNCHANGED <<managerVars, storeVars, config, initialized, loop, connectState, delivered, unsettled>>

\* ------------------------------------------------------------- the consumer loop
\* what calling the callback does: an async function that completes, an async
\* function that rejects, a function that throws before it returns a promise,
\* or an async function whose promise stays pending
CallbackOutcome(cb) ==
    CASE cb = "cbReject" -> "rejects"
      [] cb = "cbThrow" -> "throws"
      [] cb = "cbPending" -> "pending"
      [] OTHER -> "resolves"

\* the registry and the active flag a callback leaves when it is called for an
\* event of the key: cbAdds calls addListener(path, cbOk) before its first
\* await, cbRemoves calls removeListener(path, cbOk), cbCloses calls close(),
\* the others touch nothing
CallbackEffect(cb, key, ws, act) ==
    CASE cb = "cbAdds" /\ ~checkActive(act) ->
            [watchers |-> [ws EXCEPT ![key] = SetAdd(@, "cbOk")], active |-> act]
      [] cb = "cbRemoves" ->
            [watchers |-> [ws EXCEPT ![key] = SetDelete(@, "cbOk")], active |-> act]
      [] cb = "cbCloses" ->
            [watchers |-> [k \in DOMAIN ws |-> <<>>], active |-> FALSE]
      [] OTHER -> [watchers |-> ws, active |-> act]

\* mutant: the map walks the Set itself, which shows additions and deletions
\* made during the walk
RemainingLive(todo, live) ==
    IF Has(live, Head(todo))
    THEN SubSeq(live, 1 + (CHOOSE i \in 1..Len(live) : live[i] = Head(todo)), Len(live))
    ELSE <<>>

\* line 154, Array.from(watchers): the callbacks still to call after the head
\* of the array, whatever the Set has become
Remaining(todo, live) == Tail(todo)

\* Array.from(watchers).map(callback => callback(event).catch(...)): the
\* callbacks called, in order, the active flag each of them finds, and the
\* registry and the flag they leave; a throw ends the map
RECURSIVE Dispatch(_, _, _, _)
Dispatch(todo, key, ws, act) ==
    IF todo = <<>>
    THEN [invoked |-> <<>>, found |-> <<>>, watchers |-> ws, active |-> act]
    ELSE LET after == CallbackEffect(Head(todo), key, ws, act)
         IN IF CallbackOutcome(Head(todo)) = "throws"
            THEN [invoked |-> <<Head(todo)>>, found |-> <<act>>,
                  watchers |-> after.watchers, active |-> after.active]
            ELSE LET rest == Dispatch(Remaining(todo, after.watchers[key]), key,
                                      after.watchers, after.active)
                 IN [invoked |-> <<Head(todo)>> \o rest.invoked,
                     found |-> <<act>> \o rest.found,
                     watchers |-> rest.watchers,
                     active |-> rest.active]

\* mutant: the loop awaits the promises of the callbacks it has called
AwaitedAll(calls) == calls

\* line 154: the array of promises the map returns is dropped, the loop waits
\* for none of the calls
Awaited(calls) == {}

\* the calls of a dispatch whose promise is still pending when the map returns
Pending(r, invoked) ==
    {<<r, invoked[i]>> : i \in {j \in 1..Len(invoked) : CallbackOutcome(invoked[j]) = "pending"}}

\* mutant: no revision gate, every entry is applied
DiscardsNothing(oldValue, configEntry) == FALSE

\* mutant: > for >=, an entry of the cached revision is applied again
DiscardsOlderOnly(oldValue, configEntry) ==
    oldValue.present /\ oldValue.revision > configEntry.revision

\* mutant: the comparison is inverted, a newer entry is dropped
DiscardsNewer(oldValue, configEntry) ==
    oldValue.present /\ oldValue.revision <= configEntry.revision

\* handleConfigChange line 139: the entry is dropped
Discards(oldValue, configEntry) ==
    oldValue.present /\ oldValue.revision >= configEntry.revision

\* the store's clock ticks this many times in a millisecond
TicksPerMs == 2

\* entry.created.getTime(): the creation time in whole milliseconds
getTime(created) == created \div TicksPerMs

\* processEntry lines 122-130: the entry as the cache keeps it
ConfigurationEntry(entry) ==
    [present |-> TRUE,
     value |-> IF entry.operation = "PUT" THEN jsonDecode(entry.value).value ELSE Absent,
     revision |-> entry.revision,
     timestamp |-> getTime(entry.created)]

\* mutant: the decoder takes any bytes and gives undefined for what is no JSON
DecodeNeverThrows(entry) == FALSE

\* processEntry line 123: jsonCodec.decode throws
DecodeThrows(entry) == entry.operation = "PUT" /\ ~jsonDecode(entry.value).ok

NoChangeEvent == [key |-> <<>>, oldValue |-> Absent, newValue |-> Absent, timestamp |-> 0]

\* mutant: oldValue is read after config.set
ChangeEventAfterSet(key, oldValue, configEntry) ==
    [key |-> key, oldValue |-> configEntry.value,
     newValue |-> configEntry.value, timestamp |-> configEntry.timestamp]

\* lines 147-152: the ConfigChangeEvent given to the callbacks
ChangeEvent(key, oldValue, configEntry) ==
    [key |-> key,
     oldValue |-> IF oldValue.present THEN oldValue.value ELSE Absent,
     newValue |-> configEntry.value,
     timestamp |-> configEntry.timestamp]

\* the map at line 154 throws: the last callback it called threw
MapThrows(invoked) ==
    invoked # <<>> /\ CallbackOutcome(invoked[Len(invoked)]) = "throws"

\* line 143 runs before line 154: the cache as the callbacks find it
CacheAtDispatch(cache, key, configEntry) == [cache EXCEPT ![key] = configEntry]

\* get for the key of the event, called by a callback while the map runs:
\* checkActive on the flag it finds, then entry?.value of the cache it finds
getDuring(cache, act, key) ==
    IF checkActive(act)
    THEN [error |-> ClosedError, value |-> Absent]
    ELSE [error |-> NoError,
          value |-> IF cache[key].present THEN cache[key].value ELSE Absent]

\* handleConfigChange(key, configEntry): the cache it leaves, the callbacks it
\* calls, the event it gives them, what get returns to each of them for the
\* key, and whether it throws
handleConfigChange(key, configEntry) ==
    IF Discards(config[key], configEntry)
    THEN [config |-> config, watchers |-> watchers, active |-> active,
          invoked |-> <<>>, observed |-> <<>>,
          changeEvent |-> NoChangeEvent, throws |-> FALSE]
    ELSE LET dispatched == Dispatch(watchers[key], key, watchers, active)
         IN [config |-> [config EXCEPT ![key] = configEntry],
             watchers |-> dispatched.watchers,
             active |-> dispatched.active,
             invoked |-> dispatched.invoked,
             observed |-> [i \in 1..Len(dispatched.found) |->
                             getDuring(CacheAtDispatch(config, key, configEntry),
                                       dispatched.found[i], key)],
             changeEvent |-> ChangeEvent(key, config[key], configEntry),
             throws |-> MapThrows(dispatched.invoked)]

\* mutant: processEntry without its try/catch, a throw reaches the loop
processEntryUncaught(entry) ==
    IF DecodeThrows(entry)
    THEN [config |-> config, watchers |-> watchers, active |-> active,
          invoked |-> <<>>, observed |-> <<>>,
          changeEvent |-> NoChangeEvent, thrown |-> TRUE]
    ELSE LET handled == handleConfigChange(entry.key, ConfigurationEntry(entry))
         IN [config |-> handled.config,
             watchers |-> handled.watchers,
             active |-> handled.active,
             invoked |-> handled.invoked,
             observed |-> handled.observed,
             changeEvent |-> handled.changeEvent,
             thrown |-> handled.throws]

\* processEntry(entry): a throw of the decoder or of handleConfigChange is
\* caught and logged (lines 132-134), nothing is thrown to the loop
processEntry(entry) ==
    IF DecodeThrows(entry)
    THEN [config |-> config, watchers |-> watchers, active |-> active,
          invoked |-> <<>>, observed |-> <<>>,
          changeEvent |-> NoChangeEvent, thrown |-> FALSE]
    ELSE LET handled == handleConfigChange(entry.key, ConfigurationEntry(entry))
         IN [config |-> handled.config,
             watchers |-> handled.watchers,
             active |-> handled.active,
             invoked |-> handled.invoked,
             observed |-> handled.observed,
             changeEvent |-> handled.changeEvent,
             thrown |-> FALSE]

\* mutant: the loop never looks at the flags
LoopNeverThrows == FALSE

\* line 65: the loop throws 'ConfigEngine closed' instead of processing
LoopThrows == initialized /\ ~active

\* lines 64-68: the loop is in its for-await, waits for no callback, the
\* iterator can yield the entry of revision r, and the check of line 65 lets
\* it through to processEntry
Takes(r) ==
    /\ loop = "running"
    /\ r \in 1..Len(log)
    /\ ~LoopThrows
    /\ Awaited(unsettled) = {}

\* the iterator yields the entry of revision r (the feed delivers in any order,
\* any number of times) and the engine is not closed: processEntry(entry); a
\* throw out of the loop body would end the loop and reach .catch(reject)
ProcessEntry(r) ==
    /\ Takes(r)
    /\ \E processed \in {processEntry(log[r])} :
          /\ config' = processed.config
          /\ watchers' = processed.watchers
          /\ active' = processed.active
          /\ stopped' = (stopped \/ Has(processed.invoked, "cbCloses"))
          /\ unsettled' = unsettled \cup Pending(r, processed.invoked)
          /\ event' = [kind |-> "entry", revision |-> r,
                       invoked |-> processed.invoked]
          /\ loop' = IF processed.thrown THEN "failed" ELSE loop
          /\ connectState' = IF processed.thrown THEN reject(connectState)
                             ELSE connectState
    /\ delivered' = delivered \cup {r}
    /\ UNCHANGED <<managerVars, storeVars, initialized>>

\* the iterator yields an entry that was in flight when close() ran: the loop
\* throws 'ConfigEngine closed', and .catch(reject) finds connect settled
LoopClosed(r) ==
    /\ loop = "running"
    /\ r \in 1..Len(log)
    /\ LoopThrows
    /\ loop' = "failed"
    /\ connectState' = reject(connectState)
    /\ event' = ClosedThrow(r)
    /\ UNCHANGED <<managerVars, storeVars, config, watchers, active, initialized, stopped, delivered, unsettled>>

\* the watch runs initializedFn, once: active, initialized, resolve()
InitializedFn ==
    /\ loop = "running"
    /\ ~initialized
    /\ active' = TRUE
    /\ initialized' = TRUE
    /\ connectState' = resolve(connectState)
    /\ event' = CaughtUp
    /\ UNCHANGED <<managerVars, storeVars, config, watchers, stopped, loop, delivered, unsettled>>

\* the iterator ends: the for-await loop completes and nothing else runs
FeedEnds ==
    /\ loop = "running"
    /\ loop' = "ended"
    /\ event' = NoEvent
    /\ UNCHANGED <<managerVars, storeVars, config, watchers, active, initialized, stopped,
                   connectState, delivered, unsettled>>

\* the promise of a callback call that was pending settles, late
Settle ==
    /\ unsettled # {}
    /\ \E c \in unsettled : unsettled' = unsettled \ {c}
    /\ event' = NoEvent
    /\ UNCHANGED <<managerVars, storeVars, engineVars, delivered>>

\* the iterator throws: the loop's promise rejects, .catch(reject)
FeedFails ==
    /\ loop = "running"
    /\ loop' = "failed"
    /\ connectState' = reject(connectState)
    /\ event' = NoEvent
    /\ UNCHANGED <<managerVars, storeVars, config, watchers, active, initialized, stopped, delivered, unsettled>>

\* ------------------------------------------------------------- create and patch
\* the trees given to create and patch
EmptyTree == Obj(<<>>)

TreeA == Obj(<< <<"a", Leaf("x")>> >>)

TreeAY == Obj(<< <<"a", Leaf("y")>> >>)

TreeNoA == Obj(<< <<"a", Leaf(Absent)>> >>)

TreeNested == Obj(<< <<"n", Obj(<< <<"b", Leaf("x")>> >>)>>, <<"a", Leaf("x")>> >>)

TreeList == Obj(<< <<"l", Arr(ListValue, ListItems)>> >>)

TreeListNested ==
    Obj(<< <<"l", Arr(ListValue, ListItems)>>, <<"n", Obj(<< <<"b", Leaf("x")>> >>)>> >>)

PatchTrees == {EmptyTree, TreeA, TreeAY, TreeNoA, TreeNested, TreeList, TreeListNested}

\* util.ts line 22: typeof value === 'object' && value !== null
typeofObject(value) == value.t \in {"object", "array"}

\* util.ts lines 18-30: the entries of the tree in Object.entries order, the
\* entries of an object-typed value prefixed with its name
RECURSIVE getConfigKeysAndValues(_)
getConfigKeysAndValues(kids) ==
    IF kids = <<>> THEN <<>>
    ELSE (IF typeofObject(Head(kids)[2])
          THEN [i \in 1..Len(getConfigKeysAndValues(Head(kids)[2].kids)) |->
                  [key |-> <<Head(kids)[1]>>
                             \o getConfigKeysAndValues(Head(kids)[2].kids)[i].key,
                   value |-> getConfigKeysAndValues(Head(kids)[2].kids)[i].value]]
          ELSE << [key |-> <<Head(kids)[1]>>, value |-> Head(kids)[2].v] >>)
         \o getConfigKeysAndValues(Tail(kids))

\* no engine has connected yet: the manager's calls come first
MirrorIdle == connectState = "watching" /\ loop = "idle"

\* mutant: the bucket is bound whether it exists or not
bindOnlyAlways(ex) == NoError

\* views.kv(namespace, { bindOnly: true }): binds the bucket of the namespace,
\* or rejects when the namespace has none
bindOnly(ex) == IF ex THEN NoError ELSE NotFoundError

\* mutant: create empties a bucket that is there
kvCreatePurges(entries) == <<>>

\* views.kv(namespace, kvOptions) without bindOnly: the entries of the bucket
\* after the call, those of the bucket that was there or none in a new one
kvCreate(entries) == entries

\* ConfigEngineManager.create(settings): views.kv(namespace, kvOptions) makes
\* the bucket (or binds the one there is), then patch(defaults) starts
ManagerCreate(tree) ==
    /\ MirrorIdle
    /\ call.todo = <<>>
    /\ clock + Len(getConfigKeysAndValues(tree.kids)) <= MaxPatchWrites
    /\ exists' = TRUE
    /\ log' = kvCreate(log)
    /\ call' = [op |-> "create", tree |-> tree,
                todo |-> getConfigKeysAndValues(tree.kids),
                base |-> Len(kvCreate(log)), error |-> NoError]
    /\ event' = Called
    /\ UNCHANGED <<historyCall, clock, engineVars, delivered, unsettled>>

\* ConfigEngineManager.patch(namespace, patch): connect binds the bucket, or
\* rejects when there is none; the leaves are then written one at a time
ManagerPatch(tree) ==
    /\ MirrorIdle
    /\ call.todo = <<>>
    /\ clock + Len(getConfigKeysAndValues(tree.kids)) <= MaxPatchWrites
    /\ call' = IF bindOnly(exists) = NoError
               THEN [op |-> "patch", tree |-> tree,
                     todo |-> getConfigKeysAndValues(tree.kids),
                     base |-> Len(log), error |-> NoError]
               ELSE [op |-> "patch", tree |-> tree, todo |-> <<>>,
                     base |-> Len(log), error |-> bindOnly(exists)]
    /\ event' = Called
    /\ UNCHANGED <<exists, historyCall, storeVars, engineVars, delivered, unsettled>>

\* ConfigEngineManager.connect(namespace): binds the bucket or rejects
ManagerConnect ==
    /\ MirrorIdle
    /\ call.todo = <<>>
    /\ call' = [op |-> "connect", tree |-> EmptyTree, todo |-> <<>>,
                base |-> Len(log), error |-> bindOnly(exists)]
    /\ event' = Called
    /\ UNCHANGED <<exists, historyCall, storeVars, engineVars, delivered, unsettled>>

\* manager.destroy() through a manager bound to the bucket: kv.destroy()
\* deletes the stream and its entries
ManagerDestroy ==
    /\ MirrorIdle
    /\ exists
    /\ exists' = FALSE
    /\ log' = <<>>
    /\ event' = Destroyed
    /\ UNCHANGED <<call, historyCall, clock, engineVars, delivered, unsettled>>

\* mutant: the failure is swallowed and the next leaf is written
swallowed(c, error) == [c EXCEPT !.todo = Tail(@)]

\* a rejection of manager.set leaves the for loop of patch (line 51) and
\* rejects the call: no leaf is written after it
rejected(c, error) == [c EXCEPT !.todo = <<>>, !.error = error]

\* patch, line 51: await manager.set(key, value) for the next leaf; the store
\* commits the write, or the publish finds the bucket gone
PatchSet ==
    /\ call.todo # <<>>
    /\ IF exists
       THEN /\ set(Head(call.todo).key, Head(call.todo).value)
            /\ call' = [call EXCEPT !.todo = Tail(@)]
            /\ event' = SetDone(Len(log) + 1)
       ELSE /\ UNCHANGED storeVars
            /\ call' = rejected(call, NoRespondersError)
            /\ event' = SetFailed
    /\ UNCHANGED <<exists, historyCall, engineVars, delivered, unsettled>>

\* mutant: a failed patch takes back the leaves it has written
rolledBack(entries, base) ==
    IF base < Len(entries) THEN SubSeq(entries, 1, base) ELSE entries

\* patch lines 50-54: the rejection of set leaves the function, no catch and
\* no compensating write; the entries of the bucket stay
kept(entries, base) == entries

\* patch, line 51, through a connection that may not publish: the store
\* refuses the write
PatchSetDenied ==
    /\ call.todo # <<>>
    /\ exists
    /\ call' = rejected(call, PermissionsError)
    /\ log' = kept(log, call.base)
    /\ event' = SetFailed
    /\ UNCHANGED <<exists, historyCall, clock, engineVars, delivered, unsettled>>

\* ConfigEngine.connect after the manager's calls: the bucket is bound and the
\* watch established
MirrorConnect ==
    /\ bindOnly(exists) = NoError
    /\ call.todo = <<>>
    /\ WatchEstablished

\* ConfigEngine.connect on a namespace without a bucket: line 39 rejects and
\* no engine is made
MirrorConnectFails ==
    /\ MirrorIdle
    /\ bindOnly(exists) # NoError
    /\ call.todo = <<>>
    /\ event' = ConnectFailed
    /\ UNCHANGED <<managerVars, storeVars, engineVars, delivered, unsettled>>

\* the watch replays the stream from its start, in stream order
ReplayEntry ==
    /\ ~initialized
    /\ \E r \in 1..MaxPatchWrites :
          r = Cardinality(delivered) + 1 /\ ProcessEntry(r)

\* the watch has replayed every entry of the stream: the caught-up signal
ReplayDone ==
    /\ delivered = 1..Len(log)
    /\ InitializedFn

\* ------------------------------------------------------------- history
\* history lines 92-99: the ConfigHistoryEntry made of an entry of the store
HistoryEntry(entry) ==
    [value |-> IF entry.operation = "PUT" THEN jsonDecode(entry.value).value ELSE Absent,
     timestamp |-> getTime(entry.created)]

\* mutant: a delete is left out of the list
pushSkipsDeletes(values, entry) ==
    IF entry.operation = "PUT" THEN Append(values, HistoryEntry(entry)) ELSE values

\* line 96: values.push({ value, timestamp })
push(values, entry) == Append(values, HistoryEntry(entry))

\* the place of v in a list sorted by timestamp: behind every element that is
\* not later than it
RECURSIVE Insert(_, _)
Insert(sorted, v) ==
    IF sorted = <<>> THEN <<v>>
    ELSE IF Head(sorted).timestamp <= v.timestamp
         THEN <<Head(sorted)>> \o Insert(Tail(sorted), v)
         ELSE <<v>> \o sorted

\* line 101: values.sort((a, b) => a.timestamp - b.timestamp), a stable sort:
\* elements of one timestamp keep the order they were pushed in
RECURSIVE sort(_)
sort(values) ==
    IF values = <<>> THEN <<>>
    ELSE Insert(sort(SubSeq(values, 1, Len(values) - 1)), values[Len(values)])

\* line 88, kv.history({ key }): the revisions the store reports for the key,
\* or the failure to reach a bucket that is gone
kvHistory(ex, path) ==
    IF ex
    THEN [error |-> NoError,
          reported |-> {r \in 1..Len(log) : log[r].key = keyFor(path)}]
    ELSE [error |-> NotFoundError, reported |-> {}]

\* manager.history(path) is called: kv.history gives the iterator
ManagerHistory(path) ==
    /\ historyCall.state # "iterating"
    /\ historyCall' =
          [state |-> IF kvHistory(exists, path).error = NoError
                     THEN "iterating" ELSE "rejected",
           path |-> path,
           reported |-> kvHistory(exists, path).reported,
           pending |-> kvHistory(exists, path).reported,
           values |-> <<>>]
    /\ event' = HistoryStep(0)
    /\ UNCHANGED <<exists, call, storeVars, engineVars, delivered, unsettled>>

\* the iterator yields the entry of revision r, in whatever order the store
\* delivers: it is decoded and pushed, or the decoder throws and history rejects
HistoryYield(r) ==
    /\ historyCall.state = "iterating"
    /\ r \in historyCall.pending
    /\ historyCall' =
          IF DecodeThrows(log[r])
          THEN [historyCall EXCEPT !.state = "rejected", !.pending = {}]
          ELSE [historyCall EXCEPT !.pending = @ \ {r},
                                   !.values = push(@, log[r])]
    /\ event' = HistoryStep(r)
    /\ UNCHANGED <<exists, call, storeVars, engineVars, delivered, unsettled>>

\* the iterator is done: the list is sorted and returned
HistoryReturn ==
    /\ historyCall.state = "iterating"
    /\ historyCall.pending = {}
    /\ historyCall' = [historyCall EXCEPT !.state = "returned", !.values = sort(@)]
    /\ event' = HistoryStep(0)
    /\ UNCHANGED <<exists, call, storeVars, engineVars, delivered, unsettled>>

\* the holder of a connected manager calls set, before or during a history call
HistorySet(path, value) ==
    /\ Len(log) < MaxHistoryWrites
    /\ set(path, value)
    /\ event' = SetDone(Len(log) + 1)
    /\ UNCHANGED <<managerVars, engineVars, delivered, unsettled>>

\* ------------------------------------------------------------- specification
Next ==
    \/ \E p \in Paths, v \in Values \cup {Absent} : ManagerSet(p, v)
    \/ \E p \in ForeignPaths : ForeignPut(p)
    \/ WatchEstablished
    \/ WatchFails
    \/ \E r \in Revisions : ProcessEntry(r)
    \/ \E r \in Revisions : LoopClosed(r)
    \/ InitializedFn
    \/ FeedEnds
    \/ FeedFails
    \/ \E p \in Paths : Get(p)
    \/ \E p \in Paths, cb \in Callbacks : AddListener(p, cb)
    \/ \E p \in Paths, cb \in Callbacks : RemoveListener(p, cb)
    \/ Close

Spec == Init /\ [][Next]_vars

\* the feed keeps delivering every committed entry and the loop keeps running
LiveSpec == Spec /\ \A r \in Revisions : WF_vars(ProcessEntry(r))

\* the manager creates and patches a namespace that does not exist at first,
\* then an engine connects and replays the stream
ManagerInit == Fresh(StoreKeys) /\ exists = FALSE

ManagerNext ==
    \/ \E tree \in PatchTrees : ManagerCreate(tree)
    \/ \E tree \in PatchTrees : ManagerPatch(tree)
    \/ ManagerConnect
    \/ ManagerDestroy
    \/ PatchSet
    \/ PatchSetDenied
    \/ MirrorConnect
    \/ MirrorConnectFails
    \/ ReplayEntry
    \/ ReplayDone

ManagerSpec == ManagerInit /\ [][ManagerNext]_vars

\* an open engine whose listeners call back into it while they are called, or
\* return promises that stay pending
DispatchNext ==
    \/ \E p \in Paths, v \in Values : ManagerSet(p, v)
    \/ WatchEstablished
    \/ InitializedFn
    \/ \E r \in Revisions : ProcessEntry(r)
    \/ \E p \in Paths, cb \in DispatchCallbacks : AddListener(p, cb)
    \/ \E p \in Paths, cb \in DispatchCallbacks : RemoveListener(p, cb)
    \/ Settle

DispatchSpec == Init /\ [][DispatchNext]_vars

\* an open engine one of whose listeners calls close() when it is called
CloseNext ==
    \/ \E p \in Paths, v \in Values : ManagerSet(p, v)
    \/ WatchEstablished
    \/ InitializedFn
    \/ \E r \in Revisions : ProcessEntry(r)
    \/ \E r \in Revisions : LoopClosed(r)
    \/ \E p \in Paths, cb \in CloseCallbacks : AddListener(p, cb)
    \/ \E p \in Paths, cb \in CloseCallbacks : RemoveListener(p, cb)
    \/ Close

CloseSpec == Init /\ [][CloseNext]_vars

\* a manager connected to an existing namespace writes and reads the history
HistoryNext ==
    \/ \E p \in Paths, v \in Values \cup {Absent} : HistorySet(p, v)
    \/ \E p \in ForeignPaths : ForeignPut(p)
    \/ \E p \in Paths : ManagerHistory(p)
    \/ \E r \in 1..MaxHistoryWrites : HistoryYield(r)
    \/ HistoryReturn

HistorySpec == Init /\ [][HistoryNext]_vars

\* ------------------------------------------------------------- claims
\* the value a committed entry stands for: the value put, absent for a delete
EntryValue(e) == IF e.operation = "PUT" THEN e.value.text ELSE Absent

\* the entry is a delete or a put of JSON text
Decodable(e) == e.operation # "PUT" \/ e.value.fmt = "json"

\* the cache holds the entry e
Caches(cached, e) ==
    cached.present /\ cached.revision = e.revision /\ cached.value = EntryValue(e)

Max(S) == CHOOSE m \in S : \A n \in S : n <= m

\* the loop's last step handled the entry of revision r
Handled(r) == event'.kind = "entry" /\ event'.revision = r /\ r \in 1..Len(log)

\* the entry of revision r advances the cache as it is before the step
Advances(r) ==
    ~config[log[r].key].present \/ log[r].revision > config[log[r].key].revision

Count(cbs, cb) == Cardinality({i \in 1..Len(cbs) : cbs[i] = cb})

\* a callback that throws synchronously stands before another one on the key
ThrowerFirst(key) ==
    \E i \in 1..Len(watchers[key]) :
        CallbackOutcome(watchers[key][i]) = "throws" /\ i < Len(watchers[key])

\* C1: a decodable entry handled by a mirror that is not closed replaces the
\* cache entry of its key and calls every listener of the key when it advances
\* the cached revision (or nothing is cached); otherwise the cache is unchanged
\* and no listener is called.
C1_AcceptAndApply ==
    [][\A r \in Revisions :
         (Handled(r) /\ Decodable(log[r])) =>
            IF Advances(r)
            THEN /\ Caches(config'[log[r].key], log[r])
                 /\ \A cb \in Callbacks :
                      Has(watchers[log[r].key], cb) => Has(event'.invoked, cb)
            ELSE config' = config /\ event'.invoked = <<>>]_vars

\* C1 where no synchronously throwing callback stands before another one
C1_NoThrowerFirst ==
    [][\A r \in Revisions :
         (Handled(r) /\ Decodable(log[r]) /\ ~ThrowerFirst(log[r].key)) =>
            IF Advances(r)
            THEN /\ Caches(config'[log[r].key], log[r])
                 /\ \A cb \in Callbacks :
                      Has(watchers[log[r].key], cb) => Has(event'.invoked, cb)
            ELSE config' = config /\ event'.invoked = <<>>]_vars

\* the decodable entries of key k the loop has handled
Seen(k) == {r \in delivered : r \in 1..Len(log) /\ log[r].key = k /\ Decodable(log[r])}

\* C2: whatever the order and the repetitions of delivery, the cache holds for
\* each key the highest-revision decodable entry handled so far (a delete
\* included), and the cached revision of a key never decreases.
C2_HighestRevisionWins ==
    /\ [](\A k \in Keys :
            IF Seen(k) = {} THEN ~config[k].present
            ELSE Caches(config[k], log[Max(Seen(k))]))
    /\ [][\A k \in Keys : config'[k].revision >= config[k].revision]_vars

\* C2 witness: revision 1 of a key was handled after revision 2 of the same key,
\* a delete, and the cache still holds revision 2
C2_Witness ==
    /\ Len(log) = 2
    /\ log[1].key = log[2].key
    /\ log[2].operation = "DEL" /\ log[1].operation = "PUT"
    /\ delivered = {1, 2}
    /\ event.kind = "entry" /\ event.revision = 1
    /\ Caches(config[log[2].key], log[2])

\* C3: handling an entry whose revision is not above the cached one changes
\* neither the cache nor the registry and calls nobody; callbacks are called
\* for a revision only by the step that lifts the cached revision of its key
\* from below it to it, each callback once in that step, and the cached
\* revision never falls back below it, so no later step calls them again.
C3_Idempotent ==
    [][\A r \in Revisions :
         /\ Handled(r) =>
              /\ ~Advances(r) =>
                   config' = config /\ watchers' = watchers /\ event'.invoked = <<>>
              /\ event'.invoked # <<>> =>
                   /\ config[log[r].key].revision < r
                   /\ config'[log[r].key].revision = r
                   /\ \A cb \in Callbacks : Count(event'.invoked, cb) <= 1
         /\ \A k \in Keys :
              config[k].revision >= r => config'[k].revision >= r]_vars

\* C3 witness: the revision the cache holds for a key with a listener has just
\* been handled again, and nobody was called
C3_Witness ==
    /\ event.kind = "entry"
    /\ event.revision \in 1..Len(log)
    /\ config[log[event.revision].key].revision = event.revision
    /\ event.invoked = <<>>
    /\ watchers[log[event.revision].key] # <<>>

\* all the entries of key k the loop has handled, decodable or not
SeenAll(k) == {r \in delivered : r \in 1..Len(log) /\ log[r].key = k}

\* C4 as stated: connect is resolved only by the caught-up signal, and when it
\* resolves the cache holds for every key the highest-revision entry among all
\* the entries handled before the signal.
C4_ReplayedAll ==
    /\ connectState = "resolved" => initialized
    /\ event.kind = "caughtUp" =>
         /\ connectState = "resolved"
         /\ \A k \in Keys :
              IF SeenAll(k) = {} THEN ~config[k].present
              ELSE Caches(config[k], log[Max(SeenAll(k))])

\* C4 amended: connect is resolved only by the caught-up signal, and when it
\* resolves the cache holds for every key the highest-revision entry among the
\* successfully decoded entries handled before the signal.
C4_ReplayedDecoded ==
    /\ connectState = "resolved" => initialized
    /\ event.kind = "caughtUp" =>
         /\ connectState = "resolved"
         /\ \A k \in Keys :
              IF Seen(k) = {} THEN ~config[k].present
              ELSE Caches(config[k], log[Max(Seen(k))])

\* C4 witness: connect has just resolved after a replay of two revisions of one
\* key, handled in the reverse order
C4_Witness ==
    /\ event.kind = "caughtUp"
    /\ connectState = "resolved"
    /\ delivered = {1, 2}
    /\ log[1].key = log[2].key
    /\ Caches(config[log[2].key], log[2])

\* the mirror is open and its loop consumes the feed
Open == connectState = "resolved" /\ active /\ loop = "running"

\* the last revision committed for key k, 0 if none
LatestRev(k) ==
    IF \E r \in 1..Len(log) : log[r].key = k
    THEN Max({r \in 1..Len(log) : log[r].key = k})
    ELSE 0

\* get(p) returns the value of the entry of revision r
Returns(p, r) ==
    /\ r \in 1..Len(log)
    /\ get(p).error = NoError
    /\ get(p).value = EntryValue(log[r])
    /\ config[keyFor(p)].revision = r

C6_ReadYourWrite ==
    [][\A p \in Paths :
         (/\ connectState = "resolved" /\ active
          /\ Len(log') = Len(log) + 1
          /\ log'[Len(log')].key = keyFor(p)
          /\ Decodable(log'[Len(log')]))
         => get(p)'.value = EntryValue(log'[Len(log')])]_vars

\* no write was ever committed for the path
NeverWritten(p) == \A r \in 1..Len(log) : log[r].key # keyFor(p)

\* C7: on an open mirror, get of a path that was never written returns the
\* absent marker and does not throw.
C7_NeverWrittenAbsent ==
    \A p \in Paths :
        (connectState = "resolved" /\ active /\ NeverWritten(p))
           => get(p) = [error |-> NoError, value |-> Absent]

\* C7 witness: the mirror is open, holds an entry of another key, and one path
\* was never written
C7_Witness ==
    /\ connectState = "resolved" /\ active
    /\ \E p \in Paths, q \in Paths :
         NeverWritten(p) /\ config[keyFor(q)].present /\ get(p).value = Absent

\* C8: after close(), get and addListener throw 'ConfigEngine closed', the
\* addListener registers nothing, and the cache no longer changes.
C8_ClosedFails ==
    /\ [](stopped =>
            /\ \A p \in Paths : get(p).error = ClosedError
            /\ \A p \in Paths, cb \in Callbacks :
                 /\ addListener(p, cb).error = ClosedError
                 /\ addListener(p, cb).watchers = watchers
            /\ Registered = {})
    /\ [][stopped => (config' = config /\ watchers' = watchers)]_vars

\* C8 witness: a mirror that holds an entry has been closed and a write was
\* committed that the loop has not handled
C8_Witness ==
    /\ stopped
    /\ \E k \in Keys : config[k].present
    /\ \E r \in 1..Len(log) : r \notin delivered

\* C9: after close(), get, addListener and removeListener all fail.
C9_AllFailAfterClose ==
    stopped =>
       \A p \in Paths, cb \in Callbacks :
          /\ get(p).error # NoError
          /\ addListener(p, cb).error # NoError
          /\ removeListener(p, cb).error # NoError

\* C10: a callback registered on a key, however many times, is called exactly
\* once for each change accepted for that key.
C10_OncePerChange ==
    [][\A r \in Revisions :
         (Handled(r) /\ Decodable(log[r]) /\ Advances(r)) =>
            \A cb \in Callbacks :
               Has(watchers[log[r].key], cb) => Count(event'.invoked, cb) = 1]_vars

\* C10 where no synchronously throwing callback stands before another one
C10_NoThrowerFirst ==
    [][\A r \in Revisions :
         (Handled(r) /\ Decodable(log[r]) /\ Advances(r)
          /\ ~ThrowerFirst(log[r].key)) =>
            \A cb \in Callbacks :
               Has(watchers[log[r].key], cb) => Count(event'.invoked, cb) = 1]_vars

\* a callback the step has called failed, by a throw or by a rejection
Failed(invoked) ==
    \E i \in 1..Len(invoked) : CallbackOutcome(invoked[i]) \in {"rejects", "throws"}

\* the value the cache holds for key k, absent if none
CachedValue(k) == IF config[k].present THEN config[k].value ELSE Absent

\* C11: removeListener(p, cb) leaves cb unregistered on p's key and every other
\* registration as it was (nothing changes when cb was not registered); a
\* dispatch calls only callbacks registered when it runs, and a callback enters
\* a registry only through addListener: a removed callback is not called again
\* until it is registered again.
C11_RemovedNotInvoked ==
    /\ [](\A p \in Paths, cb \in Callbacks :
            /\ ~Has(removeListener(p, cb).watchers[keyFor(p)], cb)
            /\ \A k \in Keys, c \in Callbacks :
                 (k # keyFor(p) \/ c # cb) =>
                    (Has(removeListener(p, cb).watchers[k], c) <=> Has(watchers[k], c))
            /\ ~Has(watchers[keyFor(p)], cb) =>
                 removeListener(p, cb).watchers = watchers)
    /\ [][\A r \in Revisions :
            Handled(r) =>
               \A cb \in Callbacks :
                  Has(event'.invoked, cb) => Has(watchers[log[r].key], cb)]_vars
    /\ [][\A k \in Keys, cb \in Callbacks :
            (~Has(watchers[k], cb) /\ Has(watchers'[k], cb)) =>
               \E p \in Paths :
                  /\ keyFor(p) = k
                  /\ addListener(p, cb).error = NoError
                  /\ watchers' = addListener(p, cb).watchers]_vars

\* C11 witness: a callback has just been removed from a mirror that holds an
\* entry, and another registration is still there
C11_Witness ==
    /\ event.kind = "removed"
    /\ Registered # {}
    /\ \E k \in Keys : config[k].present

\* C12: when a callback registered on the key of an accepted entry fails, by a
\* throw or by a rejection, every callback registered on the key is called.
C12_FailureIsolated ==
    [][\A r \in Revisions :
         (/\ Handled(r) /\ Decodable(log[r]) /\ Advances(r)
          /\ \E cb \in Callbacks :
                /\ Has(watchers[log[r].key], cb)
                /\ CallbackOutcome(cb) \in {"rejects", "throws"})
         => \A cb \in Callbacks :
               Has(watchers[log[r].key], cb) => Has(event'.invoked, cb)]_vars

\* C12 for rejections alone: no registered callback throws
C12_RejectionIsolated ==
    [][\A r \in Revisions :
         (/\ Handled(r) /\ Decodable(log[r]) /\ Advances(r)
          /\ \E cb \in Callbacks :
                Has(watchers[log[r].key], cb) /\ CallbackOutcome(cb) = "rejects"
          /\ \A cb \in Callbacks :
                Has(watchers[log[r].key], cb) => CallbackOutcome(cb) # "throws")
         => \A cb \in Callbacks :
               Has(watchers[log[r].key], cb) => Has(event'.invoked, cb)]_vars

\* C13: when a callback called for an entry fails, the entry is in the cache,
\* the loop is still running, connect and the flags are as they were, the
\* registry is as it was, and the loop does not throw on the next entry.
C13_FailureContained ==
    [][\A r \in Revisions :
         (Handled(r) /\ Failed(event'.invoked)) =>
            /\ Caches(config'[log[r].key], log[r])
            /\ loop = "running" /\ loop' = "running"
            /\ connectState' = connectState
            /\ active' = active /\ initialized' = initialized
            /\ watchers' = watchers
            /\ ~(initialized' /\ ~active')]_vars

\* C13 witness: the second revision of a key has been handled on an open
\* mirror after the first, a throwing callback was called for it, and the loop
\* is running
C13_Witness ==
    /\ event.kind = "entry" /\ event.revision = 2
    /\ delivered = {1, 2}
    /\ log[1].key = log[2].key
    /\ Has(event.invoked, "cbThrow")
    /\ loop = "running" /\ active

\* C14: once close() has run the loop's check at line 65 holds, no entry is
\* processed, the entry the iterator yields next makes the loop throw, and the
\* cache never changes.
C14_InFlightDiscarded ==
    /\ [](stopped => LoopThrows)
    /\ [][stopped => (config' = config /\ event'.kind # "entry")]_vars
    /\ [][event'.kind = "closedThrow" =>
            (stopped /\ config' = config /\ loop' = "failed")]_vars

\* C14 witness: after close() the iterator has yielded an entry that is above
\* the cached revision of its key, and the loop has thrown
C14_Witness ==
    /\ event.kind = "closedThrow"
    /\ stopped
    /\ Decodable(log[event.revision])
    /\ config[log[event.revision].key].revision < event.revision

\* C15: once the caught-up signal has come, a feed that has ended or failed
\* leaves get and addListener failing with the closed error.
C15_FeedEndCloses ==
    (initialized /\ loop \in {"ended", "failed"}) =>
       \A p \in Paths, cb \in Callbacks :
          /\ get(p).error = ClosedError
          /\ addListener(p, cb).error = ClosedError

\* C16: when kv.watch() rejects or the loop fails before the caught-up signal,
\* connect is rejected, and a rejected connect stays rejected: it never
\* resolves with an engine.
C16_FailureRejectsConnect ==
    /\ [][(~initialized /\ loop # "failed" /\ loop' = "failed") =>
            connectState' = "rejected"]_vars
    /\ [][connectState = "rejected" => connectState' = "rejected"]_vars

\* C16 witness: the loop has failed before the signal, after it had handled an
\* entry, and connect is rejected
C16_Witness ==
    /\ connectState = "rejected"
    /\ loop = "failed"
    /\ delivered # {}
    /\ ~initialized

\* C17: the event given to the callbacks called for an entry has the entry's
\* key, a namespaced path, as key, the value cached before the step as
\* oldValue (absent if none), the entry's value as newValue (absent for a
\* delete) and the entry's creation time as timestamp; no callback is called
\* for an entry that is discarded or not decoded.
C17_ChangeEventFields ==
    [][\A r \in Revisions :
         Handled(r) =>
            /\ event'.invoked # <<>> =>
                 /\ processEntry(log[r]).changeEvent.key = log[r].key
                 /\ \E p \in Paths :
                      processEntry(log[r]).changeEvent.key = <<Namespace>> \o p
                 /\ processEntry(log[r]).changeEvent.oldValue = CachedValue(log[r].key)
                 /\ processEntry(log[r]).changeEvent.newValue = EntryValue(log[r])
                 /\ processEntry(log[r]).changeEvent.timestamp = getTime(log[r].created)
            /\ (~Advances(r) \/ ~Decodable(log[r])) => event'.invoked = <<>>]_vars

\* C17 witness: a callback has been called for a delete of a key whose first
\* revision, a put, had been handled
C17_Witness ==
    /\ event.kind = "entry" /\ event.revision = 2
    /\ event.invoked # <<>>
    /\ delivered = {1, 2}
    /\ log[1].key = log[2].key
    /\ log[1].operation = "PUT" /\ Decodable(log[1])
    /\ log[2].operation = "DEL"

\* C18: on an open mirror addListener(p, cb) returns what get(p) returns and
\* calls nobody; callbacks are called only by the step that accepts an entry,
\* and only those registered before that step.
C18_AddListenerReturnsCurrent ==
    /\ [](active =>
            \A p \in Paths, cb \in Callbacks :
               /\ addListener(p, cb).error = NoError
               /\ get(p).error = NoError
               /\ addListener(p, cb).value = get(p).value
               /\ addListener(p, cb).value = CachedValue(keyFor(p))
               /\ addListener(p, cb).invoked = <<>>)
    /\ [][event'.kind = "added" =>
            (event'.invoked = <<>> /\ config' = config)]_vars
    /\ [][event'.invoked # <<>> =>
            /\ event'.kind = "entry"
            /\ event'.revision \in 1..Len(log)
            /\ Advances(event'.revision)
            /\ \A cb \in Callbacks :
                 Has(event'.invoked, cb) =>
                    Has(watchers[log[event'.revision].key], cb)]_vars

\* C18 witness: addListener has just returned the cached value of a key, and
\* its callback is the only registration
C18_Witness ==
    /\ event.kind = "added"
    /\ active
    /\ \E p \in Paths, cb \in Callbacks :
         /\ Registered = {<<keyFor(p), cb>>}
         /\ config[keyFor(p)].present
         /\ get(p).value \in Values

\* the node a tree holds at a path, Missing when the tree has none there
Missing == [t |-> "missing", v |-> Absent, kids |-> <<>>]

RECURSIVE NodeAt(_, _)
NodeAt(kids, path) ==
    IF kids = <<>> \/ path = <<>> THEN Missing
    ELSE IF Head(kids)[1] = Head(path)
         THEN IF Len(path) = 1 THEN Head(kids)[2]
              ELSE IF Head(kids)[2].t = "object"
                   THEN NodeAt(Head(kids)[2].kids, Tail(path))
                   ELSE Missing
         ELSE NodeAt(Tail(kids), path)

\* the tree supplies the schema leaf p: a primitive, undefined or an array
Supplies(tree, p) == NodeAt(tree.kids, p).t \in {"leaf", "array"}

\* the value the tree supplies for the schema leaf p, absent if none
Supplied(tree, p) ==
    IF Supplies(tree, p) THEN NodeAt(tree.kids, p).v ELSE Absent

\* the leaves of a tree in its order, an array being one leaf
RECURSIVE LeavesOf(_)
LeavesOf(kids) ==
    IF kids = <<>> THEN <<>>
    ELSE (IF Head(kids)[2].t = "object"
          THEN [i \in 1..Len(LeavesOf(Head(kids)[2].kids)) |->
                  [key |-> <<Head(kids)[1]>> \o LeavesOf(Head(kids)[2].kids)[i].key,
                   value |-> LeavesOf(Head(kids)[2].kids)[i].value]]
          ELSE << [key |-> <<Head(kids)[1]>>, value |-> Head(kids)[2].v] >>)
         \o LeavesOf(Tail(kids))

\* the tree has an array among its leaves
HasArray(tree) == \E p \in SchemaLeaves : NodeAt(tree.kids, p).t = "array"

\* an engine has just opened on a namespace that create(defaults) made and
\* filled from an empty stream, no other call having followed
OpenedAfterCreate ==
    /\ event.kind = "caughtUp"
    /\ call.op = "create" /\ call.base = 0 /\ call.error = NoError

\* C19: an engine that connects after create(defaults) on a fresh namespace
\* returns from get(p), for every schema leaf p, the value defaults supplies
\* for p, a primitive or an array, and absent when defaults supplies none.
C19_CreateDefaultsVisible ==
    OpenedAfterCreate =>
       \A p \in SchemaLeaves :
          get(p) = [error |-> NoError, value |-> Supplied(call.tree, p)]

\* C19 for defaults without an array
C19_PrimitiveDefaultsVisible ==
    (OpenedAfterCreate /\ ~HasArray(call.tree)) =>
       \A p \in SchemaLeaves :
          get(p) = [error |-> NoError, value |-> Supplied(call.tree, p)]

\* the last revision committed for key k, 0 if none
LastWrite(k) ==
    IF \E r \in 1..Len(log) : log[r].key = k
    THEN Max({r \in 1..Len(log) : log[r].key = k})
    ELSE 0

\* the step just taken was one of the manager's call: its start, or a set
CallStep(e) == e.kind \in {"called", "set", "setFailed"}

\* the patch call has just written the last of its leaves and resolved
PatchDone ==
    /\ call.op = "patch" /\ call.error = NoError /\ call.todo = <<>>
    /\ CallStep(event)

\* the writes of the finished call are one per leaf of its tree, in order
WritesAreLeaves ==
    /\ Len(log) = call.base + Len(LeavesOf(call.tree.kids))
    /\ \A i \in 1..Len(LeavesOf(call.tree.kids)) :
         /\ call.base + i <= Len(log)
         /\ log[call.base + i].key = keyFor(LeavesOf(call.tree.kids)[i].key)
         /\ EntryValue(log[call.base + i]) = LeavesOf(call.tree.kids)[i].value
         /\ log[call.base + i].operation =
               IF LeavesOf(call.tree.kids)[i].value = Absent THEN "DEL" ELSE "PUT"

\* C20: a finished patch(p) has committed one write per leaf of p, in the order
\* of the leaves, and nothing else (nothing at all for patch({})); while the
\* call runs, the last revision of every key p does not supply stays as it is.
C20_PatchWritesOnlyLeaves ==
    /\ [](PatchDone => WritesAreLeaves)
    /\ [][\A p \in SchemaLeaves :
            (call'.op = "patch" /\ CallStep(event') /\ ~Supplies(call'.tree, p)) =>
               LastWrite(keyFor(p))' = LastWrite(keyFor(p))]_vars
    /\ [][\A k \in StoreKeys :
            (/\ call'.op = "patch" /\ CallStep(event')
             /\ k \notin {keyFor(q) : q \in SchemaLeaves}) =>
               LastWrite(k)' = LastWrite(k)]_vars

\* C20 for patches without an array
C20_PrimitivePatchWritesOnlyLeaves ==
    /\ []((PatchDone /\ ~HasArray(call.tree)) => WritesAreLeaves)
    /\ [][\A k \in StoreKeys :
            (/\ call'.op = "patch" /\ CallStep(event') /\ ~HasArray(call'.tree)
             /\ \A p \in SchemaLeaves : keyFor(p) = k => ~Supplies(call'.tree, p)) =>
               LastWrite(k)' = LastWrite(k)]_vars

\* every path a client can write under the namespace
StorePaths == {Tail(k) : k \in StoreKeys}

\* the value of the last of the first n writes to key k, absent if none
ValueBefore(k, n) ==
    IF \E r \in 1..n : log[r].key = k
    THEN EntryValue(log[Max({r \in 1..n : log[r].key = k})])
    ELSE Absent

\* the leaves of the tree that are explicitly undefined
AbsentLeaves(tree) ==
    {LeavesOf(tree.kids)[i].key :
        i \in {j \in 1..Len(LeavesOf(tree.kids)) : LeavesOf(tree.kids)[j].value = Absent}}

\* the paths the tree has a leaf for
LeafPaths(tree) == {LeavesOf(tree.kids)[i].key : i \in 1..Len(LeavesOf(tree.kids))}

\* C21: a set that the store commits appends one entry for the key of its
\* path, a DEL when the value is undefined and a PUT of the value otherwise;
\* an engine that opens after a patch with an undefined leaf returns undefined
\* for that leaf and, for every path the patch has no leaf for, the value
\* written last before the patch.
C21_AbsentDeletes ==
    /\ [][event'.kind = "set" =>
            /\ Len(log') = Len(log) + 1
            /\ \A r \in 1..Len(log) : log'[r] = log[r]
            /\ log'[Len(log')].key = keyFor(Head(call.todo).key)
            /\ log'[Len(log')].operation =
                  IF Head(call.todo).value = Absent THEN "DEL" ELSE "PUT"
            /\ EntryValue(log'[Len(log')]) = Head(call.todo).value]_vars
    /\ []((event.kind = "caughtUp" /\ call.op = "patch" /\ call.error = NoError
           /\ AbsentLeaves(call.tree) # {}) =>
            \A p \in StorePaths :
               /\ get(p).error = NoError
               /\ p \in AbsentLeaves(call.tree) => get(p).value = Absent
               /\ p \notin LeafPaths(call.tree) =>
                    get(p).value = ValueBefore(keyFor(p), call.base))

\* C21 witness: an engine has opened after create({n: {b: x}, a: x}) and
\* patch({a: undefined}); it returns undefined for a and x for n.b
C21_Witness ==
    /\ event.kind = "caughtUp"
    /\ call.op = "patch" /\ call.tree = TreeNoA /\ call.base = 2
    /\ Len(log) = 3
    /\ log[2].key = keyFor(<<"a">>) /\ log[2].operation = "PUT"
    /\ log[3].operation = "DEL"
    /\ get(<<"a">>).value = Absent
    /\ get(<<"n", "b">>).value = "x"

\* an engine has just opened on a namespace that a create filled and that a
\* second create, the last call made, has written its defaults to
OpenedAfterSecondCreate ==
    /\ event.kind = "caughtUp"
    /\ call.op = "create" /\ call.base > 0 /\ call.error = NoError

\* C22: an engine that connects after a second create on a namespace returns
\* from get(p), for every leaf p of the second defaults, a primitive or an
\* array, the value the second defaults supply.
C22_SecondCreateWins ==
    OpenedAfterSecondCreate =>
       \A p \in LeafPaths(call.tree) :
          get(p) = [error |-> NoError, value |-> Supplied(call.tree, p)]

\* C22 for second defaults without an array
C22_PrimitiveSecondCreateWins ==
    (OpenedAfterSecondCreate /\ ~HasArray(call.tree)) =>
       \A p \in LeafPaths(call.tree) :
          get(p) = [error |-> NoError, value |-> Supplied(call.tree, p)]

\* the second create has overwritten a leaf of the first and the engine shows
\* the second value
C22_PrimitiveReached ==
    /\ OpenedAfterSecondCreate
    /\ call.tree = TreeAY
    /\ \E r \in 1..call.base : log[r].key = keyFor(<<"a">>) /\ EntryValue(log[r]) = "x"
    /\ get(<<"a">>).value = "y"

\* the revisions of a set in ascending order
RECURSIVE Ascending(_)
Ascending(revs) ==
    IF revs = {} THEN <<>>
    ELSE Append(Ascending(revs \ {Max(revs)}), Max(revs))

\* the history entries of the revisions, in the order of their creation
Chronological(revs) ==
    [i \in 1..Cardinality(revs) |-> HistoryEntry(log[Ascending(revs)[i]])]

\* the history call has returned its list
Returned == historyCall.state = "returned"

\* C23: the list history returns holds the entries the store reported for the
\* key in the order of their creation, whatever the order of delivery was.
C23_HistoryChronological ==
    Returned => historyCall.values = Chronological(historyCall.reported)

\* C23 where no two reported entries were created in the same millisecond
C23_DistinctTimestampsChronological ==
    (/\ Returned
     /\ \A q, r \in historyCall.reported :
           q # r => getTime(log[q].created) # getTime(log[r].created))
    => historyCall.values = Chronological(historyCall.reported)

\* a history of three entries, a delete among them, came back in the order of
\* creation
C23_Reached ==
    /\ Returned
    /\ Cardinality(historyCall.reported) = 3
    /\ \E r \in historyCall.reported : log[r].operation = "DEL"
    /\ historyCall.values = Chronological(historyCall.reported)

\* the number of places of a list that hold v
Occurrences(values, v) == Cardinality({i \in 1..Len(values) : values[i] = v})

\* C24: the list history returns has one entry for each revision the store
\* reported for the key, each with the decoded value of a put or undefined for
\* a delete and with the creation time, none merged, dropped or added; no
\* step of a history call writes to the store.
C24_HistoryComplete ==
    /\ [](Returned =>
            /\ Len(historyCall.values) = Cardinality(historyCall.reported)
            /\ \A r \in historyCall.reported :
                  /\ HistoryEntry(log[r]).value = EntryValue(log[r])
                  /\ Occurrences(historyCall.values, HistoryEntry(log[r])) =
                        Cardinality({q \in historyCall.reported :
                                        HistoryEntry(log[q]) = HistoryEntry(log[r])}))
    /\ [][event'.kind = "history" => (log' = log /\ clock' = clock)]_vars

\* C24 witness: history has returned three entries of one key, a delete and
\* two puts of the same value among them
C24_Witness ==
    /\ Returned
    /\ Len(historyCall.values) = 3
    /\ Cardinality(historyCall.reported) = 3
    /\ \E q, r, d \in historyCall.reported :
          /\ q # r
          /\ log[q].operation = "PUT" /\ log[r].operation = "PUT"
          /\ log[d].operation = "DEL"

\* C25: destroy() leaves the namespace without a bucket; while it has none,
\* ConfigEngineManager.connect and patch reject with the not-found error and
\* write nothing, ConfigEngine.connect rejects and no watch is established, a
\* set through a manager bound earlier rejects and commits nothing, and
\* kv.history rejects; only create brings the namespace back.
C25_DestroyedNotFound ==
    /\ [][event'.kind = "destroyed" => (~exists' /\ log' = <<>>)]_vars
    /\ [][~exists =>
            /\ (event'.kind = "called" /\ call'.op \in {"connect", "patch"}) =>
                  (call'.error = NotFoundError /\ call'.todo = <<>> /\ log' = log)
            /\ (connectState' = connectState /\ loop' = loop)
            /\ event'.kind # "set"
            /\ event'.kind = "setFailed" => (call'.error # NoError /\ log' = log)
            /\ exists' => (event'.kind = "called" /\ call'.op = "create")]_vars
    /\ [](~exists =>
            /\ bindOnly(exists) = NotFoundError
            /\ \A p \in StorePaths : kvHistory(exists, p).error # NoError)

\* C25 witness: a namespace that had been written to was destroyed; a patch
\* has rejected with the not-found error, and ConfigEngine.connect has just
\* rejected
C25_Witness ==
    /\ ~exists
    /\ clock > 0
    /\ call.op = "patch" /\ call.error = NotFoundError
    /\ event.kind = "connectFailed"

\* C26: a set of a create or patch call that the store accepts commits exactly
\* one entry and the call goes on with the next leaf; a set that the store
\* refuses commits nothing, is not tried again, and its error rejects the
\* call, which writes no further leaf; a connect or patch on a namespace
\* without a bucket rejects with nothing written; nothing is ever committed
\* by a call that has failed.
C26_FailuresSurface ==
    /\ [][event'.kind = "set" =>
            /\ Len(log') = Len(log) + 1
            /\ call'.todo = Tail(call.todo)
            /\ call'.error = NoError]_vars
    /\ [][event'.kind = "setFailed" =>
            /\ log' = log
            /\ call'.error \in {NoRespondersError, PermissionsError}
            /\ call'.todo = <<>>]_vars
    /\ [][Len(log') > Len(log) => (call.error = NoError /\ call.todo # <<>>)]_vars
    /\ [][(event'.kind = "called" /\ ~exists /\ call'.op \in {"connect", "patch"}) =>
            (call'.error # NoError /\ call'.todo = <<>> /\ log' = log)]_vars

\* C26 witness: the store has refused the second set of a call with two
\* leaves; the first is committed, the call is rejected and has nothing left
\* to write
C26_Witness ==
    /\ event.kind = "setFailed"
    /\ call.error = PermissionsError
    /\ call.tree = TreeNested
    /\ Len(log) = call.base + 1
    /\ call.todo = <<>>

\* a create or patch call has just flattened its tree and written nothing yet
Flattened ==
    /\ event.kind = "called"
    /\ call.op \in {"create", "patch"} /\ call.error = NoError

\* C27: the list of (path, value) pairs a call flattens its tree to holds, in
\* the order of the tree, one pair for every primitive, every explicit
\* undefined and every array (the array as its value), and descends only into
\* objects.
C27_ArraysAreLeaves ==
    Flattened =>
       /\ call.todo = getConfigKeysAndValues(call.tree.kids)
       /\ call.todo = LeavesOf(call.tree.kids)

\* C27 for trees without an array
C27_PrimitivesAreLeaves ==
    (Flattened /\ ~HasArray(call.tree)) =>
       /\ call.todo = getConfigKeysAndValues(call.tree.kids)
       /\ call.todo = LeavesOf(call.tree.kids)

\* a nested tree without an array was flattened to its two leaves, in order
C27_PrimitivesReached ==
    /\ Flattened
    /\ call.tree = TreeNested
    /\ call.todo = << [key |-> <<"n", "b">>, value |-> "x"],
                      [key |-> <<"a">>, value |-> "x"] >>

\* the place of a member in the insertion order of a Set, 0 for none
Place(cbs, cb) == IF Has(cbs, cb) THEN CHOOSE i \in 1..Len(cbs) : cbs[i] = cb ELSE 0

\* whether cbOk is registered after every callback of the snapshot has run:
\* the last of cbAdds and cbRemoves in it decides, and without them nothing
\* changes
OkAfter(snapshot) ==
    IF Place(snapshot, "cbAdds") = 0 /\ Place(snapshot, "cbRemoves") = 0
    THEN Has(snapshot, "cbOk")
    ELSE Place(snapshot, "cbAdds") > Place(snapshot, "cbRemoves")

\* C28: the callbacks called for an accepted entry are those registered on
\* its key when the dispatch starts, in their order, whatever the callbacks
\* add to or remove from the registry while they run; the additions and
\* removals are in the registry the dispatch leaves, for the next entry.
C28_DispatchSnapshot ==
    [][\A r \in Revisions :
         (Handled(r) /\ Decodable(log[r]) /\ Advances(r)) =>
            /\ event'.invoked = watchers[log[r].key]
            /\ Has(watchers'[log[r].key], "cbOk") <=> OkAfter(watchers[log[r].key])
            /\ \A cb \in AllCallbacks \ {"cbOk"} :
                  Has(watchers'[log[r].key], cb) <=> Has(watchers[log[r].key], cb)
            /\ \A k \in Keys : k # log[r].key => watchers'[k] = watchers[k]]_vars

\* C28 witness: a callback has removed the listener that stands behind it
\* while the entry was dispatched; the removed listener was still called and
\* is no longer registered
C28_Witness ==
    /\ event.kind = "entry"
    /\ event.invoked = <<"cbRemoves", "cbOk">>
    /\ event.revision \in 1..Len(log)
    /\ watchers[log[event.revision].key] = <<"cbRemoves">>

\* a listener registered by a callback during a dispatch was not called for
\* that entry and stands in the registry
C28_AddedReached ==
    /\ event.kind = "entry"
    /\ event.invoked = <<"cbAdds">>
    /\ event.revision \in 1..Len(log)
    /\ watchers[log[event.revision].key] = <<"cbAdds", "cbOk">>

\* one list is the beginning of the other
IsPrefix(short, long) ==
    /\ Len(short) <= Len(long)
    /\ \A i \in 1..Len(short) : short[i] = long[i]

\* C29: the callbacks called for an entry are called in the order of the
\* registry of its key; a step never swaps two registered callbacks and a
\* newly registered one goes behind all others, so that order is the order of
\* first registration; callbacks are called for a key only by steps that lift
\* its cached revision, which never decreases, so in increasing revision order.
C29_DispatchOrder ==
    /\ [][event'.kind = "entry" =>
            IsPrefix(event'.invoked, watchers[log[event'.revision].key])]_vars
    /\ [][\A k \in Keys :
            watchers'[k] # watchers[k] =>
               \A c, d \in Callbacks :
                  /\ (/\ Has(watchers[k], c) /\ Has(watchers[k], d)
                      /\ Has(watchers'[k], c) /\ Has(watchers'[k], d)
                      /\ Place(watchers[k], c) < Place(watchers[k], d))
                     => Place(watchers'[k], c) < Place(watchers'[k], d)
                  /\ (~Has(watchers[k], c) /\ Has(watchers'[k], c))
                     => Place(watchers'[k], c) = Len(watchers'[k])]_vars
    /\ [][\A k \in Keys :
            /\ config'[k].revision >= config[k].revision
            /\ (event'.invoked # <<>> /\ event'.kind = "entry"
                /\ log[event'.revision].key = k) =>
                  /\ config[k].revision < event'.revision
                  /\ config'[k].revision = event'.revision]_vars

\* C29 witness: two callbacks were called, in the order of the registry, for
\* the second revision of a key whose first revision had been handled
C29_Witness ==
    /\ event.kind = "entry" /\ event.revision = 2
    /\ Len(event.invoked) = 2
    /\ delivered = {1, 2}
    /\ log[1].key = log[2].key
    /\ event.invoked = watchers[log[2].key]

\* C30: while promises of earlier callback calls are pending, the loop takes
\* every entry the feed yields, and handles it as it handles any entry: an
\* entry that advances the cache is cached and dispatched to the listeners of
\* its key, any other leaves the cache as it is.
C30_NoAwait ==
    /\ []((loop = "running" /\ ~LoopThrows /\ unsettled # {}) =>
            \A r \in 1..Len(log) : Takes(r))
    /\ [][\A r \in Revisions :
            (Handled(r) /\ unsettled # {}) =>
               IF Advances(r)
               THEN /\ Caches(config'[log[r].key], log[r])
                    /\ event'.invoked = watchers[log[r].key]
               ELSE config' = config /\ event'.invoked = <<>>]_vars

\* C30 witness: the second entry has been cached and dispatched while the
\* promise of a callback called for the first is still pending
C30_Witness ==
    /\ event.kind = "entry" /\ event.revision = 2
    /\ <<1, "cbPending">> \in unsettled
    /\ event.invoked # <<>>
    /\ config[log[2].key].revision = 2

\* C31: handling an entry whose payload does not decode leaves the cache, the
\* entry cached for its key included, and the registry as they were, calls no
\* listener, leaves the loop running and connect and the flags as they were,
\* and the loop takes every entry afterwards that it would have taken before.
C31_DecodeFailureContained ==
    [][\A r \in Revisions :
         (Handled(r) /\ ~Decodable(log[r])) =>
            /\ config' = config
            /\ watchers' = watchers
            /\ event'.invoked = <<>>
            /\ loop = "running" /\ loop' = "running"
            /\ connectState' = connectState
            /\ active' = active /\ initialized' = initialized
            /\ \A q \in 1..Len(log) : Takes(q)' <=> Takes(q)]_vars

\* C31 witness: the second revision of a key, bytes that are no JSON, has been
\* handled after the first; the cache still holds the first and the loop runs
C31_Witness ==
    /\ event.kind = "entry" /\ event.revision = 2
    /\ Len(log) = 2
    /\ ~Decodable(log[2])
    /\ log[1].key = log[2].key
    /\ Caches(config[log[2].key], log[1])
    /\ loop = "running"
    /\ Takes(1)

\* the state of the mirror's lifecycle
Lifecycle ==
    IF active THEN "OPEN"
    ELSE IF initialized THEN "CLOSED"
    ELSE "CONNECTING"

\* C32: the lifecycle changes only from CONNECTING to OPEN, by the caught-up
\* signal, and from OPEN to CLOSED; nothing changes it once it is CLOSED; get
\* and addListener succeed in OPEN and in no other state.
C32_LifecycleOneWay ==
    /\ [][Lifecycle' # Lifecycle =>
            \/ (Lifecycle = "CONNECTING" /\ Lifecycle' = "OPEN"
                /\ event'.kind = "caughtUp")
            \/ (Lifecycle = "OPEN" /\ Lifecycle' = "CLOSED")]_vars
    /\ [](\A p \in Paths, cb \in Callbacks :
            /\ get(p).error = NoError <=> Lifecycle = "OPEN"
            /\ addListener(p, cb).error = NoError <=> Lifecycle = "OPEN")

\* C32 witness: a mirror that was open and had handled an entry is closed,
\* its feed has ended, and get fails
C32_Witness ==
    /\ Lifecycle = "CLOSED"
    /\ loop = "ended"
    /\ delivered # {}
    /\ \A p \in Paths : get(p).error = ClosedError

UnknownPaths == StorePaths \ SchemaLeaves

\* C34: get and addListener on a path that is no leaf of the schema fail, and
\* no set writes the key of such a path.
C34_UnknownPathFails ==
    /\ [](active =>
            \A p \in UnknownPaths, cb \in Callbacks :
               /\ get(p).error # NoError
               /\ addListener(p, cb).error # NoError)
    /\ [][event'.kind = "set" => Tail(log'[Len(log')].key) \in SchemaLeaves]_vars

\* C34, the part that holds: on an engine that is not open every path fails
\* with the closed error, the unknown ones like the known ones
C34_ClosedFailsAnyPath ==
    ~active =>
       \A p \in StorePaths, cb \in Callbacks :
          /\ get(p).error = ClosedError
          /\ addListener(p, cb).error = ClosedError

\* an open engine returns the value stored under l.0, a path that is no leaf
C34_UnknownReached ==
    /\ active
    /\ get(<<"l", "0">>) = [error |-> NoError, value |-> "x"]

\* the Map of the cache, or of the registry, has no entry
CacheEmpty == \A k \in DOMAIN config : ~config[k].present

RegistryEmpty == \A k \in DOMAIN watchers : watchers[k] = <<>>

\* C35: until the watch is established the cache and the registry are empty;
\* only a step of the consumer loop changes the cache; once close() has been
\* called the cache and the registry are empty.
C35_EmptyThenLoopOnlyThenCleared ==
    /\ [](loop = "idle" => (CacheEmpty /\ RegistryEmpty))
    /\ [][config' # config => event'.kind = "entry"]_vars
    /\ [](stopped => (CacheEmpty /\ RegistryEmpty))

\* C35 without the cache after close: both are empty at first, only the loop
\* changes the cache, close() leaves the registry empty and the cache as it was
C35_RegistryCleared ==
    /\ [](loop = "idle" => (CacheEmpty /\ RegistryEmpty))
    /\ [][config' # config => event'.kind = "entry"]_vars
    /\ [](stopped => RegistryEmpty)
    /\ [][stopped' => (stopped \/ config' = config)]_vars

\* close() was called on an engine that had cached a value and had a listener
C35_ClosedWithCache ==
    /\ stopped
    /\ ~CacheEmpty
    /\ RegistryEmpty
    /\ \E p \in Paths : get(p).error = ClosedError

\* a callback of the dispatch was called after one that had called close()
CalledAfterClose(invoked) ==
    \E i, j \in 1..Len(invoked) : i < j /\ invoked[i] = "cbCloses"

\* C36: once close() has been called no callback is called: none by a later
\* step, and none by the dispatch during which a callback called close().
C36_NoCallAfterClose ==
    /\ [][stopped => event'.invoked = <<>>]_vars
    /\ [][event'.kind = "entry" => ~CalledAfterClose(event'.invoked)]_vars

\* C36 once close() has returned to the loop or to the holder: no later step
\* calls a callback, and the registry is empty
C36_NoCallAfterCloseReturned ==
    /\ [][stopped => event'.invoked = <<>>]_vars
    /\ [](stopped => (RegistryEmpty /\ ~active))

\* a dispatch has called cbCloses, which closed the engine, and then cbOk
C36_CalledInClosingDispatch ==
    /\ event.kind = "entry"
    /\ event.invoked = <<"cbCloses", "cbOk">>
    /\ stopped /\ ~active /\ RegistryEmpty

\* the promise of ConfigEngine.connect has resolved or rejected
ConnectSettled == connectState \in {"resolved", "rejected"}

\* C37: once the feed is over, by its end or by a failure, the connect call
\* has resolved or rejected.
C37_ConnectSettles ==
    loop \in {"ended", "failed"} => ConnectSettled

\* C37 for a feed that fails or comes to the caught-up signal: connect is
\* settled then; after a feed that ended first, connect stays pending in
\* every later step
C37_SettlesUnlessFeedEnds ==
    /\ []((loop = "failed" \/ initialized) => ConnectSettled)
    /\ [][(loop = "ended" /\ ~ConnectSettled) => ~ConnectSettled']_vars

\* the feed has ended before the caught-up signal and connect is pending
C37_PendingReached ==
    /\ loop = "ended"
    /\ ~initialized
    /\ connectState = "pending"
    /\ delivered # {}

\* the leaves of the running call that its sets have written so far
Applied == Len(getConfigKeysAndValues(call.tree.kids)) - Len(call.todo)

\* C38: every set of a patch or create call commits one entry, that of the
\* first leaf not yet written; when a set fails on a bucket that is there,
\* the call is rejected with the failure, the leaves written before it are
\* the entries behind the call's base, in flattened order, the bucket is as
\* the failing step found it, and the failed call writes nothing more.
C38_PatchNotAtomic ==
    /\ [][event'.kind = "set" =>
            /\ Len(log') = Len(log) + 1
            /\ SubSeq(log', 1, Len(log)) = log
            /\ log'[Len(log')].key = keyFor(Head(call.todo).key)
            /\ EntryValue(log'[Len(log')]) = Head(call.todo).value]_vars
    /\ [][(event'.kind = "setFailed" /\ exists) =>
            /\ log' = log
            /\ call'.error = PermissionsError
            /\ call'.todo = <<>>
            /\ Len(log') = call.base + Applied
            /\ \A i \in 1..Applied :
                  /\ log'[call.base + i].key =
                        keyFor(getConfigKeysAndValues(call.tree.kids)[i].key)
                  /\ EntryValue(log'[call.base + i]) =
                        getConfigKeysAndValues(call.tree.kids)[i].value]_vars
    /\ [][(call.error # NoError /\ Len(log') > Len(log)) =>
            (call'.error = NoError /\ event'.kind = "set")]_vars

\* C38 witness: the third set of patch({l: [x, x], n: {b: x}}) was refused;
\* the two entries written before it are in the bucket
C38_Witness ==
    /\ event.kind = "setFailed"
    /\ call.op = "patch"
    /\ call.tree = TreeListNested
    /\ call.error = PermissionsError
    /\ Len(log) = call.base + 2
    /\ log[call.base + 1].key = keyFor(<<"l", "0">>)
    /\ log[call.base + 2].key = keyFor(<<"l", "1">>)

\* C39: every callback called for an entry, when it calls get for the key of
\* the event while it runs, is returned the entry's value, the newValue of
\* the event, without an error.
C39_ListenerSeesNewValue ==
    [][\A r \in Revisions :
         Handled(r) =>
            /\ Len(processEntry(log[r]).observed) = Len(event'.invoked)
            /\ \A i \in 1..Len(event'.invoked) :
                  /\ processEntry(log[r]).observed[i] =
                        [error |-> NoError, value |-> EntryValue(log[r])]
                  /\ processEntry(log[r]).observed[i].value =
                        processEntry(log[r]).changeEvent.newValue]_vars

\* C39 for the callbacks called while the engine is open: get returns the
\* newValue of the event to them; to one called after a callback of the same
\* dispatch has closed the engine, get throws the closed error; the cache
\* the step leaves holds the entry
C39_OpenListenerSeesNewValue ==
    [][\A r \in Revisions :
         (Handled(r) /\ event'.invoked # <<>>) =>
            /\ Len(processEntry(log[r]).observed) = Len(event'.invoked)
            /\ Caches(config'[log[r].key], log[r])
            /\ \A i \in 1..Len(event'.invoked) :
                  processEntry(log[r]).observed[i] =
                     IF \E j \in 1..(i - 1) : event'.invoked[j] = "cbCloses"
                     THEN [error |-> ClosedError, value |-> Absent]
                     ELSE [error |-> NoError,
                           value |-> processEntry(log[r]).changeEvent.newValue]]_vars

\* the first put of a key was dispatched to cbOk and then to cbCloses, both
\* called on the open engine, and the cache holds it
C39_NewValueReached ==
    /\ event.kind = "entry" /\ event.revision = 1
    /\ event.invoked = <<"cbOk", "cbCloses">>
    /\ log[1].operation = "PUT"
    /\ Caches(config[log[1].key], log[1])
    /\ stopped

\* the entry of revision r carries the value the cache holds for its key
SameValue(r) == EntryValue(log[r]) = CachedValue(log[r].key)

\* C40: a decodable entry that advances the cached revision and carries the
\* value the cache already holds (a put of the same value, a delete of an
\* absent key) replaces the cache entry, and every callback registered on its
\* key is called, with an event whose oldValue equals its newValue.
C40_ValueBlind ==
    [][\A r \in Revisions :
         (Handled(r) /\ Decodable(log[r]) /\ Advances(r) /\ SameValue(r)) =>
            /\ Caches(config'[log[r].key], log[r])
            /\ \A cb \in Callbacks :
                  Has(watchers[log[r].key], cb) => Has(event'.invoked, cb)
            /\ processEntry(log[r]).changeEvent.oldValue =
                  processEntry(log[r]).changeEvent.newValue]_vars

\* C40 where no synchronously throwing callback stands before another one
C40_ValueBlindNoThrowerFirst ==
    [][\A r \in Revisions :
         (Handled(r) /\ Decodable(log[r]) /\ Advances(r) /\ SameValue(r)
          /\ ~ThrowerFirst(log[r].key)) =>
            /\ Caches(config'[log[r].key], log[r])
            /\ config'[log[r].key] # config[log[r].key]
            /\ \A cb \in Callbacks :
                  Has(watchers[log[r].key], cb) => Has(event'.invoked, cb)
            /\ processEntry(log[r]).changeEvent.oldValue =
                  processEntry(log[r]).changeEvent.newValue]_vars

\* a second put of the value x to a key was accepted and dispatched to two
\* callbacks while the cache held x at revision 1
C40_RePutReached ==
    /\ event.kind = "entry" /\ event.revision = 2
    /\ Len(event.invoked) = 2
    /\ Len(log) = 2
    /\ log[1].key = log[2].key
    /\ EntryValue(log[1]) = "x" /\ EntryValue(log[2]) = "x"
    /\ Decodable(log[1]) /\ Decodable(log[2])
    /\ delivered = {1, 2}
    /\ config[log[2].key].revision = 2

====
